---- MODULE Spec2Model ----
(***************************************************************************)
(* Session-oriented HTTP transport of the Jira MCP server                  *)
(* (createHttpTransport, Streamable HTTP variant with SessionManager).     *)
(*                                                                         *)
(* Strings are sequences of characters; a session id (a UUID) is a         *)
(* one-character string <<i>>.  A header value is either the JavaScript    *)
(* value undefined or a string.  Times are milliseconds, as Date.now()     *)
(* returns them; the clock starts at 0 when the transport is created and   *)
(* is taken to be non-decreasing.                                          *)
(***************************************************************************)
EXTENDS Integers, Sequences, FiniteSets, TLC

(* ------------------------------ bounds -------------------------------- *)

\* Number of UUIDs the generator can hand out, hence of stream-establishes.
MaxSessions == 2

\* Number of times the clock is advanced between two handlers.
MaxTicks == 2

(* ------------------------- program constants -------------------------- *)

\* SESSION_CONFIG.MAX_AGE_MS.
MAX_AGE_MS == 3600000

\* JSON_RPC_ERROR_CODES.
INVALID_REQUEST == -32600

UNAUTHORIZED == -32001

(* ------------------------------ values -------------------------------- *)

\* The JavaScript value undefined (a header the request does not carry).
undefined == [kind |-> "undefined", val |-> <<>>]

\* A JavaScript string.
Str(s) == [kind |-> "string", val |-> s]

\* The UUIDs randomUUID() can return.
IDs == {<<i>> : i \in 1..MaxSessions}

\* A well-formed identifier the server never issues ("not-a-real-session").
Bogus == <<0>>

\* The values of the Mcp-Session-Id request header that clients send.
Headers == {undefined, Str(<<>>)} \cup {Str(k) : k \in IDs \cup {Bogus}}

\* Amounts by which the clock advances between two handlers.
Deltas == {1, MAX_AGE_MS - 1}

VARIABLES
    sessions,        \* SessionManager.sessions: the Map, in insertion order
    responses,       \* the response channels opened by GET /mcp, by handle
    now,             \* the clock read by new Date() and Date.now()
    cleanupInterval, \* the setInterval timer of the sweeper
    server,          \* the McpServer passed to createHttpTransport: the
                     \* transport it is connected to, the messages it got
    last,            \* the last request on the endpoint and its response
    issued,          \* the UUIDs randomUUID() has returned so far
    ticks,           \* how often the clock was advanced (bounds the model)
    hist,            \* history of the sessions, kept for the properties
    activeTransports \* the Map of createStreamableHttpTransport:
                     \* session id -> transport

vars == <<sessions, responses, now, cleanupInterval, server, last,
          issued, ticks, hist, activeTransports>>

(* --------------------------- the Map ---------------------------------- *)

MapKeys(m) == {m[i].key : i \in 1..Len(m)}

MapHas(m, k) == k \in MapKeys(m)

MapIndex(m, k) == CHOOSE i \in 1..Len(m) : m[i].key = k

MapGet(m, k) == m[MapIndex(m, k)].value

\* Variant of MapSet for a registry kept as a list of entries: a refreshed
\* session is added as another entry.
MapSetAppends(m, k, v) == Append(m, [key |-> k, value |-> v])

\* Map.prototype.set: replaces the value of a present key in place, appends
\* a new key at the end.
MapSet(m, k, v) ==
    IF MapHas(m, k)
    THEN [m EXCEPT ![MapIndex(m, k)] = [key |-> k, value |-> v]]
    ELSE Append(m, [key |-> k, value |-> v])

\* Map.prototype.delete.
MapDelete(m, k) ==
    IF MapHas(m, k)
    THEN LET i == MapIndex(m, k)
         IN  SubSeq(m, 1, i - 1) \o SubSeq(m, i + 1, Len(m))
    ELSE m

(* ------------------------ SessionManager ------------------------------ *)

\* Variant of randomUUID() that may return a UUID it returned before.
randomUUIDRepeats == IDs

\* randomUUID(): a version-4 UUID.  The generator does not repeat itself:
\* its n-th call returns the n-th UUID of its sequence, written <<n>>.
randomUUID == {k \in IDs : k = <<Cardinality(issued) + 1>>}

\* createSession(res): stores the session under sessionId.  The two
\* new Date() calls read the clock one after the other (t1 <= t2).
createSession(m, sessionId, res, t1, t2) ==
    MapSet(m, sessionId,
           [id |-> sessionId, response |-> res,
            createdAt |-> t1, lastActivity |-> t2])

\* Variant of getSession that leaves a session idle for more than
\* MAX_AGE_MS as it is instead of refreshing it.
getSessionChecksAge(m, sessionId, t) ==
    IF MapHas(m, sessionId)
       /\ t - MapGet(m, sessionId).lastActivity <= MAX_AGE_MS
    THEN MapSet(m, sessionId,
                [MapGet(m, sessionId) EXCEPT !.lastActivity = t])
    ELSE m

\* Variant of getSession for identifiers that are good for one message:
\* the session found is taken out of the registry.
getSessionOnce(m, sessionId, t) ==
    IF MapHas(m, sessionId) THEN MapDelete(m, sessionId) ELSE m

\* Variant of getSession that sets lastActivity back to the session's
\* createdAt.
getSessionRewinds(m, sessionId, t) ==
    IF MapHas(m, sessionId)
    THEN MapSet(m, sessionId,
                [MapGet(m, sessionId) EXCEPT
                    !.lastActivity = MapGet(m, sessionId).createdAt])
    ELSE m

\* Variant of getSession that restarts the session: createdAt is set along
\* with lastActivity.
getSessionRestarts(m, sessionId, t) ==
    IF MapHas(m, sessionId)
    THEN MapSet(m, sessionId,
                [MapGet(m, sessionId) EXCEPT !.lastActivity = t,
                                             !.createdAt = t])
    ELSE m

\* Variant of getSession that does not refresh lastActivity.
getSessionNoRefresh(m, sessionId, t) == m

\* getSession(sessionId): the registry after the lookup (lastActivity of a
\* found session is refreshed).
getSession(m, sessionId, t) ==
    IF MapHas(m, sessionId)
    THEN MapSet(m, sessionId,
                [MapGet(m, sessionId) EXCEPT !.lastActivity = t])
    ELSE m

\* What getSession returns: the session, or undefined.
getSessionFound(m, sessionId) == MapHas(m, sessionId)

\* Variant of deleteSession that empties the registry (sessions.clear())
\* when it finds the identifier.
deleteSessionClears(m, sessionId) ==
    IF MapHas(m, sessionId) THEN <<>> ELSE m

\* Variant of deleteSession for a registry kept as an array and spliced at
\* indexOf(sessionId): for an absent identifier the index is -1 and the
\* last entry is removed.
deleteSessionSplice(m, sessionId) ==
    IF MapHas(m, sessionId) THEN MapDelete(m, sessionId)
    ELSE IF m = <<>> THEN m
    ELSE SubSeq(m, 1, Len(m) - 1)

\* Variant of deleteSession that leaves the entry in the Map.
deleteSessionKeeps(m, sessionId) == m

\* deleteSession(sessionId).
deleteSession(m, sessionId) ==
    IF MapHas(m, sessionId) THEN MapDelete(m, sessionId) ELSE m

\* getActiveCount().
getActiveCount(m) == Len(m)

\* Variant of the loop that steps past the entry that moved up after a
\* deletion (the loop of an index over an array that is spliced).
RECURSIVE cleanupLoopSkips(_, _, _, _, _)
cleanupLoopSkips(m, i, t, maxAgeMs, cleanedCount) ==
    IF i > Len(m)
    THEN [map |-> m, cleanedCount |-> cleanedCount]
    ELSE IF t - m[i].value.lastActivity > maxAgeMs
         THEN cleanupLoopSkips(MapDelete(m, m[i].key), i + 1, t, maxAgeMs,
                               cleanedCount + 1)
         ELSE cleanupLoopSkips(m, i + 1, t, maxAgeMs, cleanedCount)

\* Variant of the loop that also deletes a session idle for exactly
\* maxAgeMs.
RECURSIVE cleanupLoopInclusive(_, _, _, _, _)
cleanupLoopInclusive(m, i, t, maxAgeMs, cleanedCount) ==
    IF i > Len(m)
    THEN [map |-> m, cleanedCount |-> cleanedCount]
    ELSE IF t - m[i].value.lastActivity >= maxAgeMs
         THEN cleanupLoopInclusive(deleteSession(m, m[i].key), i, t,
                                   maxAgeMs, cleanedCount + 1)
         ELSE cleanupLoopInclusive(m, i + 1, t, maxAgeMs, cleanedCount)

\* The for-of loop of cleanupStale over sessions.entries(): i is the
\* position of the iterator.  Deleting the entry under the iterator moves
\* the following entries up, and the iterator visits them next.
RECURSIVE cleanupLoop(_, _, _, _, _)
cleanupLoop(m, i, t, maxAgeMs, cleanedCount) ==
    IF i > Len(m)
    THEN [map |-> m, cleanedCount |-> cleanedCount]
    ELSE IF t - m[i].value.lastActivity > maxAgeMs
         THEN cleanupLoop(deleteSession(m, m[i].key), i, t, maxAgeMs,
                          cleanedCount + 1)
         ELSE cleanupLoop(m, i + 1, t, maxAgeMs, cleanedCount)

\* Variant of cleanupStale that counts the stale sessions without deleting
\* them.
cleanupStaleCountOnly(m, t, maxAgeMs) ==
    [map |-> m, cleanedCount |-> cleanupLoop(m, 1, t, maxAgeMs, 0).cleanedCount]

\* cleanupStale(maxAgeMs), with now = Date.now() read once.
cleanupStale(m, t, maxAgeMs) == cleanupLoop(m, 1, t, maxAgeMs, 0)

\* Variant of cleanupStaleReturn that hands the count to the caller.
cleanupStaleReturnsCount(m, t, maxAgeMs) ==
    [kind |-> "number", val |-> cleanupStale(m, t, maxAgeMs).cleanedCount]

\* What the call cleanupStale(maxAgeMs) evaluates to: the method is declared
\* void and has no return statement.
cleanupStaleReturn(m, t, maxAgeMs) == undefined

\* What cleanupStale writes to the log: the count, when it is positive.
cleanupStaleLog(m, t, maxAgeMs) ==
    LET cleanedCount == cleanupStale(m, t, maxAgeMs).cleanedCount
    IN  IF cleanedCount > 0 THEN <<cleanedCount>> ELSE <<>>

(* ------------------------ validation helpers -------------------------- *)

\* Variant of validateSessionIdHeader without the length check.
validateSessionIdHeaderAnyString(h) == h.kind = "string"

\* validateSessionIdHeader: typeof sessionId === "string" && length > 0.
validateSessionIdHeader(h) == h.kind = "string" /\ Len(h.val) > 0

\* JavaScript truthiness of a header value (if (sessionId) ...).
Truthy(h) == h.kind = "string" /\ h.val # <<>>

(* --------------------------- responses -------------------------------- *)

\* createJsonRpcError(code, message) called without an id.
createJsonRpcError(code, message) ==
    [jsonrpc |-> "2.0", error |-> [code |-> code, message |-> message]]

\* res.status(statusCode).json(createJsonRpcError(errorCode, message)).
sendJsonRpcError(statusCode, errorCode, message) ==
    [status |-> statusCode, kind |-> "json",
     body |-> createJsonRpcError(errorCode, message)]

\* A request and the response written for it.  body is "ok" for a request
\* without a body or with well-formed JSON, "malformed" otherwise.  sent is
\* the number of responses put on the wire for the request (for a stream:
\* the number of times its headers were sent), attempts the number of times
\* the code started to write one.
Exchange(method, path, h, body, res) ==
    [method |-> method, path |-> path, header |-> h, body |-> body,
     res |-> res, sent |-> 1, attempts |-> 1]

NoResponse == [status |-> 0, kind |-> "none", body |-> <<>>]

NoRequest == [Exchange("none", "none", undefined, "ok", NoResponse)
                 EXCEPT !.sent = 0, !.attempts = 0]

\* A request on /mcp whose handler has not written a response yet.
Pending(method, h) ==
    [Exchange(method, "/mcp", h, "ok", NoResponse)
        EXCEPT !.sent = 0, !.attempts = 0]

\* The body of the response the catch block of the dispatcher writes.
InternalErrorResponse ==
    [status |-> 500, kind |-> "json",
     body |-> [error |-> "Internal server error", message |-> "fault"]]

\* Variant of catchBlock that only logs the error.
catchBlockLogOnly(ex) == ex

\* The catch block of the dispatcher, entered with exchange ex when a
\* handler threw: it logs and calls res.status(500).json(...) without
\* looking at res.headersSent.  When the headers are out already, Express
\* throws from json() (ERR_HTTP_HEADERS_SENT) and nothing more is written.
catchBlock(ex) ==
    IF ex.sent = 0
    THEN [ex EXCEPT !.res = InternalErrorResponse, !.sent = 1,
                    !.attempts = @ + 1]
    ELSE [ex EXCEPT !.attempts = @ + 1]

\* Variant of StreamHeaders that announces another identifier than the one
\* the session is stored under.
StreamHeadersOther(sessionId) ==
    [ContentType |-> "text/event-stream", CacheControl |-> "no-cache",
     Connection |-> "keep-alive", McpSessionId |-> <<0>>]

\* The headers handleGetMcp sets on the stream's response.
StreamHeaders(sessionId) ==
    [ContentType |-> "text/event-stream", CacheControl |-> "no-cache",
     Connection |-> "keep-alive", McpSessionId |-> sessionId]

\* Variant of DeleteResponse that answers 404 for an unknown session, as
\* the DELETE branch of createStreamableHttpTransport does.
DeleteResponse404(m, h) ==
    IF h.kind = "string" /\ MapHas(m, h.val)
    THEN [status |-> 204, kind |-> "end", body |-> <<>>]
    ELSE [status |-> 404, kind |-> "json",
          body |-> [error |-> "Session not found"]]

\* The response handleDeleteMcp writes: res.status(204).end(), whether or
\* not the header named a session of registry m.
DeleteResponse(m, h) == [status |-> 204, kind |-> "end", body |-> <<>>]

\* Variant of the "close" listener that only logs, as the listener of the
\* /sse route of the older transport does.
onCloseLogOnly(m, sessionId) == m

\* Variant of the "close" listener that reads the identifier from a
\* variable shared by all requests, which holds the identifier of the
\* session created last.
onCloseLatest(m, sessionId) ==
    IF m = <<>> THEN m ELSE deleteSession(m, m[Len(m)].key)

\* The "close" listener handleGetMcp registers on the request, closed over
\* sessionId: the registry after it ran.
onClose(m, sessionId) == deleteSession(m, sessionId)

\* The verbs the dispatcher of /mcp has no case for.
OtherMethods == {"PATCH"}

\* The verbs whose requests reach the JSON body parser.
ParsedMethods == {"GET", "POST", "DELETE"} \cup OtherMethods

\* The Mcp-Session-Id headers of the requests with a malformed body: none,
\* or the identifier of the first session (unknown before that session is
\* created and after it is removed, valid in between).
ParseHeaders == {undefined, Str(<<1>>)}

(* ----------------------------- history -------------------------------- *)

\* The identifiers a stream-establish returned and that no terminate,
\* disconnect or sweep has removed since, according to the history.
HistLive == {k \in hist.returned : hist.removedBy[k] = "nothing"}

\* removedBy[k]: what first ended k after it was returned; lastTouch[k]: the
\* time k was returned or last carried by a message while live (0 once k
\* has ended).
HistInit == [returned |-> {},
             removedBy |-> [k \in IDs |-> "nothing"],
             lastTouch |-> [k \in IDs |-> 0]]

\* The history after the identifiers in ks were ended by cause.
HistEnd(ks, cause) ==
    [hist EXCEPT
       !.removedBy = [k \in IDs |-> IF k \in ks \cap HistLive
                                    THEN cause ELSE @[k]],
       !.lastTouch = [k \in IDs |-> IF k \in ks THEN 0 ELSE @[k]]]

(* ------------------------------ Init ---------------------------------- *)

Init ==
    /\ sessions = <<>>
    /\ responses = <<>>
    /\ now = 0
    /\ cleanupInterval = "active"
    /\ server = [transport |-> "none", received |-> <<>>]
    /\ last = NoRequest
    /\ issued = {}
    /\ ticks = 0
    /\ hist = HistInit
    /\ activeTransports = <<>>

(* ----------------------------- actions -------------------------------- *)

\* Time passes between two handlers.
Tick(d) ==
    /\ ticks < MaxTicks
    /\ now' = now + d
    /\ ticks' = ticks + 1
    /\ UNCHANGED <<sessions, responses, cleanupInterval, server,
                   activeTransports, last, issued, hist>>

\* What handleGetMcp does to the registry, the clock and the new stream
\* res when randomUUID() returns sessionId and the clock advances by d
\* between the two new Date() calls of createSession.
GetEffects(sessionId, d, res) ==
    /\ ticks + d <= MaxTicks
    /\ ticks' = ticks + d
    /\ sessions' = createSession(sessions, sessionId, res, now, now + d)
    /\ now' = now + d
    /\ issued' = issued \cup {sessionId}
    /\ responses' = Append(responses,
           [headers |-> StreamHeaders(sessionId),
            onClose |-> sessionId,
            state |-> "open",
            written |-> <<"comment">>])
    /\ hist' = [hist EXCEPT
           !.returned = @ \cup {sessionId},
           !.lastTouch[sessionId] = now + d]
    /\ UNCHANGED <<cleanupInterval, server, activeTransports>>

\* GET /mcp with a well-formed (or no) body: handleGetMcp.
handleGetMcp ==
    \E sessionId \in randomUUID, d \in 0..1 :
        LET res == Len(responses) + 1
        IN  /\ GetEffects(sessionId, d, res)
            /\ last' = Exchange("GET", "/mcp", undefined, "ok",
                                 [status |-> 200, kind |-> "stream",
                                  body |-> res])

\* The response handlePostMcp writes for header h on registry m.
PostResponse(m, h) ==
    IF ~validateSessionIdHeader(h)
    THEN sendJsonRpcError(400, INVALID_REQUEST,
                          "Bad Request: Missing Mcp-Session-Id header")
    ELSE IF ~getSessionFound(m, h.val)
    THEN sendJsonRpcError(401, UNAUTHORIZED,
                          "Unauthorized: Invalid or expired session ID")
    ELSE [status |-> 202, kind |-> "json", body |-> [accepted |-> TRUE]]

\* What handlePostMcp does to the registry for a request carrying header h.
PostEffects(h) ==
    /\ sessions' = IF validateSessionIdHeader(h)
                   THEN getSession(sessions, h.val, now)
                   ELSE sessions
    /\ hist' = IF h.val \in HistLive
               THEN [hist EXCEPT !.lastTouch[h.val] = now]
               ELSE hist
    /\ UNCHANGED <<responses, now, cleanupInterval, server, activeTransports,
                   issued, ticks>>

\* POST /mcp with a well-formed body: handlePostMcp.  The MCP server is not
\* called and nothing is written to the session's stream.
handlePostMcp(h) ==
    /\ PostEffects(h)
    /\ last' = Exchange("POST", "/mcp", h, "ok", PostResponse(sessions, h))

\* What handleDeleteMcp does to the registry for a request carrying header
\* h.
DeleteEffects(h) ==
    /\ sessions' = IF Truthy(h) THEN deleteSession(sessions, h.val)
                   ELSE sessions
    /\ hist' = HistEnd({h.val}, "terminate")
    /\ UNCHANGED <<responses, now, cleanupInterval, server, activeTransports,
                   issued, ticks>>

\* DELETE /mcp with a well-formed (or no) body: handleDeleteMcp.
handleDeleteMcp(h) ==
    /\ DeleteEffects(h)
    /\ last' = Exchange("DELETE", "/mcp", h, "ok",
                         DeleteResponse(sessions, h))

\* The client closes the connection of stream r: the "close" listener that
\* handleGetMcp registered runs.
Disconnect(r) ==
    /\ responses[r].state = "open"
    /\ responses' = [responses EXCEPT ![r].state = "closed"]
    /\ sessions' = onClose(sessions, responses[r].onClose)
    /\ hist' = HistEnd({responses[r].headers.McpSessionId}, "disconnect")
    /\ UNCHANGED <<now, cleanupInterval, server, activeTransports, last,
                   issued, ticks>>

\* Variant of the setInterval callback for a timer that clearInterval does
\* not stop.
cleanupTickAlways ==
    /\ sessions' = cleanupStale(sessions, now, MAX_AGE_MS).map
    /\ hist' = HistEnd({k \in HistLive :
                           now - hist.lastTouch[k] > MAX_AGE_MS}, "sweep")
    /\ UNCHANGED <<responses, now, cleanupInterval, server, activeTransports,
                   last, issued, ticks>>

\* The setInterval callback: cleanupStale(SESSION_CONFIG.MAX_AGE_MS).  The
\* model does not track when the timer is due (every 5 minutes):
\* the callback may run between any two handlers while the timer is set.
cleanupTick ==
    /\ cleanupInterval = "active"
    /\ sessions' = cleanupStale(sessions, now, MAX_AGE_MS).map
    /\ hist' = HistEnd({k \in HistLive :
                           now - hist.lastTouch[k] > MAX_AGE_MS}, "sweep")
    /\ UNCHANGED <<responses, now, cleanupInterval, server, activeTransports,
                   last, issued, ticks>>

\* configureCors on an OPTIONS request: res.sendStatus(200), before the body
\* is parsed and whatever the path.
Preflight ==
    /\ last' = Exchange("OPTIONS", "/mcp", undefined, "ok",
                         [status |-> 200, kind |-> "text", body |-> "OK"])
    /\ UNCHANGED <<sessions, responses, now, cleanupInterval, server,
                   activeTransports, issued, ticks, hist>>

\* Variant of AfterParseError for a body parser mounted on message requests
\* only (app.post): a terminate request is dispatched with its body unread.
AfterParseErrorPostOnly(m, method, h, t) ==
    IF method = "DELETE" /\ Truthy(h) THEN deleteSession(m, h.val) ELSE m

\* Variant of AfterParseError for a body parser registered behind the route
\* of /mcp: the handler of a message request has looked the session up
\* before the body is found malformed.
AfterParseErrorRouted(m, method, h, t) ==
    IF method = "POST" /\ validateSessionIdHeader(h)
    THEN getSession(m, h.val, t)
    ELSE IF method = "DELETE" /\ validateSessionIdHeader(h)
    THEN deleteSession(m, h.val)
    ELSE m

\* The registry after a request with a malformed body and header h at time
\* t: express.json() is registered before the route of /mcp and passes its
\* SyntaxError to next(), which skips the route and runs the error
\* middleware, so no handler sees the request.
AfterParseError(m, method, h, t) == m

\* The response of the error middleware to a SyntaxError that has a body.
ParseErrorResponse ==
    sendJsonRpcError(400, INVALID_REQUEST, "Bad Request: Malformed JSON")

\* A request with a malformed JSON body: express.json() fails and the
\* error middleware answers.
ParseError(method, h) ==
    /\ sessions' = AfterParseError(sessions, method, h, now)
    /\ last' = Exchange(method, "/mcp", h, "malformed", ParseErrorResponse)
    /\ UNCHANGED <<responses, now, cleanupInterval, server, activeTransports,
                   issued, ticks, hist>>

\* Variant of MethodNotAllowedResponse that lists the verbs of
\* CORS_CONFIG.ALLOW_METHODS.
MethodNotAllowedResponseCors ==
    [status |-> 405, kind |-> "json",
     body |-> [error |-> "Method Not Allowed",
               allowed |-> <<"GET", "POST", "DELETE", "OPTIONS">>]]

\* The response of the default case of the dispatcher of /mcp.
MethodNotAllowedResponse ==
    [status |-> 405, kind |-> "json",
     body |-> [error |-> "Method Not Allowed",
               allowed |-> <<"GET", "POST", "DELETE">>]]

\* The default case of the dispatcher of /mcp.
MethodNotAllowed(method) ==
    /\ last' = Exchange(method, "/mcp", undefined, "ok",
                         MethodNotAllowedResponse)
    /\ UNCHANGED <<sessions, responses, now, cleanupInterval, server,
                   activeTransports, issued, ticks, hist>>

\* The body of the response to GET /health on registry m at time t.
HealthBody(m, t) ==
    [status |-> "healthy",
     service |-> "jira-mcp",
     transport |-> "streamable-http",
     protocol |-> "2025-03-26",
     activeSessions |-> getActiveCount(m),
     timestamp |-> t]

\* Variant of Health that counts the sessions by looking each of them up
\* with getSession.
RECURSIVE TouchAll(_, _, _)
TouchAll(m, i, t) ==
    IF i > Len(m) THEN m ELSE TouchAll(getSession(m, m[i].key, t), i + 1, t)

HealthTouching ==
    /\ sessions' = TouchAll(sessions, 1, now)
    /\ last' = Exchange("GET", "/health", undefined, "ok",
                         [status |-> 200, kind |-> "json",
                          body |-> HealthBody(sessions, now)])
    /\ UNCHANGED <<responses, now, cleanupInterval, server, activeTransports,
                   issued, ticks, hist>>

\* GET /health.
Health ==
    /\ last' = Exchange("GET", "/health", undefined, "ok",
                         [status |-> 200, kind |-> "json",
                          body |-> HealthBody(sessions, now)])
    /\ UNCHANGED <<sessions, responses, now, cleanupInterval, server,
                   activeTransports, issued, ticks, hist>>

\* The SIGTERM handler: clearInterval(cleanupInterval).  The process keeps
\* running and the listener keeps serving.
Sigterm ==
    /\ cleanupInterval' = "cleared"
    /\ UNCHANGED <<sessions, responses, now, server, activeTransports, last,
                   issued, ticks, hist>>

Next ==
    \/ \E d \in Deltas : Tick(d)
    \/ handleGetMcp
    \/ \E h \in Headers : handlePostMcp(h)
    \/ \E h \in Headers : handleDeleteMcp(h)
    \/ \E r \in 1..Len(responses) : Disconnect(r)
    \/ cleanupTick
    \/ Preflight
    \/ \E method \in ParsedMethods, h \in ParseHeaders : ParseError(method, h)
    \/ \E method \in OtherMethods : MethodNotAllowed(method)
    \/ Health
    \/ Sigterm

Spec == Init /\ [][Next]_vars

\* The steps that read or change the registry, the clock or the timer.
SweeperNext ==
    \/ \E d \in Deltas : Tick(d)
    \/ handleGetMcp
    \/ \E h \in Headers : handlePostMcp(h)
    \/ \E h \in Headers : handleDeleteMcp(h)
    \/ \E r \in 1..Len(responses) : Disconnect(r)
    \/ cleanupTick
    \/ Sigterm

\* setInterval runs its callback again and again until clearInterval: a
\* sweep that would change the registry is not put off forever.
FairSpec == Init /\ [][SweeperNext]_vars /\ WF_vars(cleanupTick)

(* ------------------------- handlers that throw ------------------------ *)

\* The verbs whose case in the dispatcher calls a handler.
HandledMethods == {"GET", "POST", "DELETE"}

\* The handler of method throws before it has done anything; the catch
\* block of the dispatcher runs.
FaultAtEntry(method, h) ==
    /\ last' = catchBlock(Pending(method, h))
    /\ UNCHANGED <<sessions, responses, now, cleanupInterval, server,
                   activeTransports, issued, ticks, hist>>

\* The exchange after a handler that was about to write response res threw
\* from the call that writes it, with the headers out already (headersSent)
\* or not, and the catch block of the dispatcher ran.
ThrownAtWrite(method, h, res, headersSent) ==
    catchBlock(IF headersSent
               THEN Exchange(method, "/mcp", h, "ok", res)
               ELSE Pending(method, h))

\* handleGetMcp throws from its last statement, res.write, after the
\* session was created and the headers of the stream were sent (res.write
\* sends them before the first chunk).
FaultAtWriteGet ==
    \E sessionId \in randomUUID, d \in 0..1 :
        LET res == Len(responses) + 1
        IN  /\ GetEffects(sessionId, d, res)
            /\ last' = ThrownAtWrite("GET", undefined,
                                      [status |-> 200, kind |-> "stream",
                                       body |-> res],
                                      TRUE)

\* handlePostMcp throws from its last statement, the call that writes the
\* response.
FaultAtWritePost(h, headersSent) ==
    /\ PostEffects(h)
    /\ last' = ThrownAtWrite("POST", h, PostResponse(sessions, h),
                              headersSent)

\* handleDeleteMcp throws from its last statement, res.status(204).end().
FaultAtWriteDelete(h, headersSent) ==
    /\ DeleteEffects(h)
    /\ last' = ThrownAtWrite("DELETE", h, DeleteResponse(sessions, h),
                              headersSent)

\* The requests on /mcp at one setting of the timers, where a handler may
\* throw.
FaultNext ==
    \/ handleGetMcp
    \/ \E h \in Headers : handlePostMcp(h)
    \/ \E h \in Headers : handleDeleteMcp(h)
    \/ \E r \in 1..Len(responses) : Disconnect(r)
    \/ Preflight
    \/ \E method \in ParsedMethods, h \in ParseHeaders : ParseError(method, h)
    \/ \E method \in OtherMethods : MethodNotAllowed(method)
    \/ \E method \in HandledMethods, h \in Headers : FaultAtEntry(method, h)
    \/ FaultAtWriteGet
    \/ \E h \in Headers, headersSent \in BOOLEAN :
           FaultAtWritePost(h, headersSent)
    \/ \E h \in Headers, headersSent \in BOOLEAN :
           FaultAtWriteDelete(h, headersSent)

FaultSpec == Init /\ [][FaultNext]_vars

(* ---------------- createStreamableHttpTransport (SDK) ----------------- *)

\* The endpoint of createStreamableHttpTransport keeps its sessions in
\* activeTransports and leaves the session identifiers to the SDK's
\* StreamableHTTPServerTransport.  A transport draws its identifier and
\* calls onsessioninitialized while it handles an initialize request that
\* was passed to its handleRequest; the constructor and server.connect
\* (which calls transport.start) handle no request.

\* req.query.sessionId || req.body?.sessionId.
sessionIdOf(query, bodyId) == IF Truthy(query) THEN query ELSE bodyId

\* The response of the POST branch for sessionId on the Map m, transport
\* being the one the server is connected to: the transport found under
\* sessionId answers when there is one.
sdkPostResponse(m, sessionId, transport) ==
    IF ~Truthy(sessionId)
    THEN [status |-> 400, kind |-> "json",
          body |-> [error |-> "Missing sessionId"]]
    ELSE IF ~MapHas(m, sessionId.val)
    THEN [status |-> 404, kind |-> "json",
          body |-> [error |-> "Session not found"]]
    ELSE [status |-> 200, kind |-> "transport",
          body |-> MapGet(m, sessionId.val)]

\* A transport that server.connect has started and on which close() was not
\* called.  by is the sessionId of the DELETE request that called close().
Connected == [state |-> "connected", by |-> undefined]

\* The GET branch: a transport is constructed and the server connected to
\* it.  The request is not passed to transport.handleRequest and the branch
\* writes nothing to res, so the request stays unanswered and no session is
\* initialized.
sdkGet ==
    /\ Len(responses) < MaxSessions
    /\ responses' = Append(responses,
           [headers |-> [McpSessionId |-> <<>>],
            onClose |-> <<>>,
            state |-> "open",
            written |-> <<>>,
            transport |-> Connected])
    /\ server' = [server EXCEPT !.transport = Len(responses) + 1]
    /\ last' = Pending("GET", undefined)
    /\ UNCHANGED <<sessions, now, cleanupInterval, issued, ticks, hist,
                   activeTransports>>

\* The client gives up an unanswered GET; the branch registered no listener.
sdkClientClose(r) ==
    /\ responses[r].state = "open"
    /\ responses' = [responses EXCEPT ![r].state = "closed"]
    /\ UNCHANGED <<sessions, now, cleanupInterval, server, last, issued,
                   ticks, hist, activeTransports>>

\* The POST branch, for a request with sessionId query in its query string
\* and bodyId in its body.
sdkPost(query, bodyId) ==
    LET sessionId == sessionIdOf(query, bodyId)
    IN  /\ last' = Exchange("POST",
                            IF query = undefined THEN "/mcp"
                            ELSE "/mcp?sessionId",
                            sessionId, "ok",
                            sdkPostResponse(activeTransports, sessionId,
                                            server.transport))
        /\ UNCHANGED <<sessions, responses, now, cleanupInterval, server,
                       issued, ticks, hist, activeTransports>>

\* The DELETE branch, for a request with sessionId query in its query
\* string: transport.close() and activeTransports.delete when a transport
\* is found.
sdkDelete(query) ==
    /\ activeTransports' = IF Truthy(query)
                           THEN MapDelete(activeTransports, query.val)
                           ELSE activeTransports
    /\ last' = Exchange("DELETE",
                        IF query = undefined THEN "/mcp"
                        ELSE "/mcp?sessionId",
                        query, "ok",
                        IF ~Truthy(query)
                        THEN [status |-> 400, kind |-> "json",
                              body |-> [error |-> "Missing sessionId"]]
                        ELSE IF MapHas(activeTransports, query.val)
                        THEN [status |-> 200, kind |-> "json",
                              body |-> [message |-> "Session terminated"]]
                        ELSE [status |-> 404, kind |-> "json",
                              body |-> [error |-> "Session not found"]])
    /\ UNCHANGED <<sessions, responses, now, cleanupInterval, server,
                   issued, ticks, hist>>

\* The else branch.
sdkMethodNotAllowed(method) ==
    /\ last' = Exchange(method, "/mcp", undefined, "ok",
                        [status |-> 405, kind |-> "json",
                         body |-> [error |-> "Method not allowed"]])
    /\ UNCHANGED <<sessions, responses, now, cleanupInterval, server,
                   issued, ticks, hist, activeTransports>>

SdkNext ==
    \/ sdkGet
    \/ \E r \in 1..Len(responses) : sdkClientClose(r)
    \/ \E query \in Headers, bodyId \in Headers : sdkPost(query, bodyId)
    \/ \E query \in Headers : sdkDelete(query)
    \/ \E method \in OtherMethods : sdkMethodNotAllowed(method)

SdkSpec == Init /\ [][SdkNext]_vars

(* ------------- the callbacks and the await of the SDK variant --------- *)

\* The GET branch hands two callbacks to the transport it constructs, and
\* the DELETE branch awaits transport.close() before it removes the
\* session.  The steps below are the endpoint with the SDK taken as its
\* environment: a transport may call the callbacks it was given, and the
\* promise of close() settles after other requests were handled.

\* The transports under which m holds a session.
MapValues(m) == {m[i].value : i \in 1..Len(m)}

\* The onsessioninitialized callback of transport r, called with the
\* identifier drawn by its sessionIdGenerator, randomUUID():
\* activeTransports.set(sessionId, transport).
onsessioninitialized(r) ==
    /\ responses[r].transport.state = "connected"
    /\ r \notin MapValues(activeTransports)
    /\ \E sessionId \in randomUUID :
           /\ activeTransports' = MapSet(activeTransports, sessionId, r)
           /\ issued' = issued \cup {sessionId}
    /\ UNCHANGED <<sessions, responses, now, cleanupInterval, server, last,
                   ticks, hist>>

\* The onsessionclosed callback, called with the identifier of a session:
\* activeTransports.delete(sessionId).
onsessionclosed(sessionId) ==
    /\ activeTransports' = MapDelete(activeTransports, sessionId)
    /\ UNCHANGED <<sessions, responses, now, cleanupInterval, server, last,
                   issued, ticks, hist>>

\* The DELETE branch up to its await, for a request with sessionId query in
\* its query string: without a sessionId and for an unknown one the
\* response is written; for a known one transport.close() is called and
\* the request stays unanswered until the promise settles, the session
\* still being in activeTransports.
sdkDeleteStart(query) ==
    IF Truthy(query) /\ MapHas(activeTransports, query.val)
    THEN LET r == MapGet(activeTransports, query.val)
         IN  /\ responses' = [responses EXCEPT
                    ![r].transport = [state |-> "closing", by |-> query]]
             /\ last' = [Pending("DELETE", query)
                            EXCEPT !.path = "/mcp?sessionId"]
             /\ UNCHANGED <<sessions, now, cleanupInterval, server, issued,
                            ticks, hist, activeTransports>>
    ELSE sdkDelete(query)

\* The DELETE branch after its await, for the request that called close()
\* on transport r: activeTransports.delete(sessionId) and the response 200.
sdkDeleteResume(r) ==
    /\ responses[r].transport.state = "closing"
    /\ LET query == responses[r].transport.by
       IN  /\ activeTransports' = MapDelete(activeTransports, query.val)
           /\ responses' = [responses EXCEPT
                  ![r].transport = [state |-> "closed", by |-> query]]
           /\ last' = Exchange("DELETE", "/mcp?sessionId", query, "ok",
                          [status |-> 200, kind |-> "json",
                           body |-> [message |-> "Session terminated"]])
    /\ UNCHANGED <<sessions, now, cleanupInterval, server, issued, ticks,
                   hist>>

SdkCallbackNext ==
    \/ sdkGet
    \/ \E r \in 1..Len(responses) : sdkClientClose(r)
    \/ \E r \in 1..Len(responses) : onsessioninitialized(r)
    \/ \E sessionId \in MapKeys(activeTransports) :
           onsessionclosed(sessionId)
    \/ \E query \in Headers, bodyId \in Headers : sdkPost(query, bodyId)
    \/ \E query \in Headers : sdkDeleteStart(query)
    \/ \E r \in 1..Len(responses) : sdkDeleteResume(r)
    \/ \E method \in OtherMethods : sdkMethodNotAllowed(method)

SdkCallbackSpec == Init /\ [][SdkCallbackNext]_vars

(* ----------------------------- properties ----------------------------- *)

Accepted == [status |-> 202, kind |-> "json", body |-> [accepted |-> TRUE]]

\* last is the response of handlePostMcp to a request carrying header h.
LastPost == last.method = "POST" /\ last.body = "ok"

LastDelete == last.method = "DELETE" /\ last.body = "ok"

\* The step is handlePostMcp on a request carrying header last'.header.
PostStep ==
    /\ last'.method = "POST"
    /\ last'.body = "ok"
    /\ handlePostMcp(last'.header)

\* The step is handleDeleteMcp on a request carrying header last'.header.
DeleteStep ==
    /\ last'.method = "DELETE"
    /\ last'.body = "ok"
    /\ handleDeleteMcp(last'.header)

\* The step is handleGetMcp.
GetStep == Len(responses') = Len(responses) + 1 /\ handleGetMcp

\* The step is a run of the sweeper.
SweepStep == last' = last /\ now' = now /\ cleanupTick

\* The step is a request with a verb the dispatcher has no case for.
NotAllowedStep ==
    /\ last'.method \in OtherMethods
    /\ last'.body = "ok"
    /\ MethodNotAllowed(last'.method)

\* The step is a health request.
HealthStep == last'.path = "/health" /\ Health

\* The step is a request with a malformed body.
ParseStep ==
    /\ last'.body = "malformed"
    /\ ParseError(last'.method, last'.header)

\* C1 (validity-equivalence): the registry holds exactly the identifiers
\* that a stream-establish returned and that no terminate, disconnect or
\* sweep has ended since, and a message request carrying x is answered 202
\* if and only if x is one of them.
ValidityEquivalence ==
    /\ [](MapKeys(sessions) = HistLive)
    /\ [][PostStep =>
            LET h == last'.header
            IN  (last'.res.status = 202) <=>
                    (h.kind = "string" /\ h.val \in HistLive)]_vars

\* An accepted message for a live identifier, while another identifier has
\* been ended.
ValidityEquivalenceWitness ==
    /\ LastPost
    /\ last.res.status = 202
    /\ last.header.val \in HistLive
    /\ \E k \in hist.returned : hist.removedBy[k] # "nothing"

\* C2 (outcome of a message request): 400 / -32600 and an untouched
\* registry when the header is absent or the empty string, 401 / -32001
\* when it is a non-empty string that is no key of the registry, 202 with
\* {accepted: true} when it is a key; nothing else.
PostOutcomeTotal ==
    [][PostStep =>
            LET h   == last'.header
                res == last'.res
            IN  IF h = undefined \/ h = Str(<<>>)
                THEN /\ res.status = 400
                     /\ res.body.error.code = -32600
                     /\ sessions' = sessions
                ELSE IF h.val \notin MapKeys(sessions)
                THEN /\ res.status = 401
                     /\ res.body.error.code = -32001
                ELSE res = Accepted]_vars

\* A message request with an empty-string header was answered 400 while
\* the registry held a session.
PostOutcomeTotalWitness ==
    /\ LastPost
    /\ last.header = Str(<<>>)
    /\ last.res.status = 400
    /\ Len(sessions) > 0

\* C3 (idempotent terminate): a terminate request is always answered 204
\* with no body; afterwards its identifier is no key of the registry, and
\* a terminate whose identifier is no key (absent, never issued, already
\* removed, or terminated before) leaves the registry as it is.
IdempotentTerminate ==
    [][DeleteStep =>
         LET h == last'.header
         IN  /\ last'.res.status = 204
             /\ last'.res.kind = "end"
             /\ h.val \notin MapKeys(sessions')
             /\ (h.val \notin MapKeys(sessions) => sessions' = sessions)
             /\ deleteSession(sessions', h.val) = sessions']_vars

\* A terminate request for a session that was already removed was answered
\* 204 while another session was live.
IdempotentTerminateWitness ==
    /\ LastDelete
    /\ last.res.status = 204
    /\ last.header.val \in hist.returned
    /\ hist.removedBy[last.header.val] \in {"disconnect", "sweep"}
    /\ Len(sessions) > 0

\* C4 (expiry): a sweep removes every session whose last successful lookup
\* (or creation) is more than maxAge ago, and a message request carrying
\* the identifier of a swept session is answered like one carrying a
\* never-issued identifier: 401 / -32001.
ExpiryRejects ==
    /\ [][SweepStep =>
            \A k \in HistLive :
                now - hist.lastTouch[k] > MAX_AGE_MS =>
                    k \notin MapKeys(sessions')]_vars
    /\ [][(PostStep /\ last'.header.val \in hist.returned
                    /\ hist.removedBy[last'.header.val] = "sweep") =>
                /\ last'.res.status = 401
                /\ last'.res.body.error.code = -32001
                /\ last'.res = PostResponse(sessions, Str(Bogus))]_vars

\* A message request for a swept session was answered 401.
ExpiryRejectsWitness ==
    /\ LastPost
    /\ last.header.val \in hist.returned
    /\ hist.removedBy[last.header.val] = "sweep"
    /\ last.res.status = 401

\* C5 (activity refresh): no sweep removes a session whose creation or last
\* accepted message is less than maxAge ago, so a session kept alive by
\* messages less than maxAge apart survives every sweep.
ActivityRefresh ==
    [][SweepStep =>
         \A k \in HistLive :
             now - hist.lastTouch[k] < MAX_AGE_MS =>
                 k \in MapKeys(sessions')]_vars

\* Session <<1>> is live although it was created more than maxAge ago and
\* a sweep has since removed the younger session <<2>>.
ActivityRefreshWitness ==
    /\ MapHas(sessions, <<1>>)
    /\ now - MapGet(sessions, <<1>>).createdAt > MAX_AGE_MS
    /\ MapGet(sessions, <<1>>).lastActivity
           > MapGet(sessions, <<1>>).createdAt + 1
    /\ <<2>> \in hist.returned
    /\ hist.removedBy[<<2>>] = "sweep"

\* C7 (stream-establish): a stream-establish adds exactly one entry to the
\* registry, stored under the identifier announced in the Mcp-Session-Id
\* header of its response and holding that response as its channel; and as
\* long as no terminate, disconnect or sweep has ended the announced
\* identifier, a message request carrying it is answered 202.
EstablishStoresAnnouncedId ==
    /\ [][GetStep =>
            LET r  == Len(responses')
                id == responses'[r].headers.McpSessionId
            IN  /\ Len(sessions') = Len(sessions) + 1
                /\ MapKeys(sessions') = MapKeys(sessions) \cup {id}
                /\ id \notin MapKeys(sessions)
                /\ MapGet(sessions', id).id = id
                /\ MapGet(sessions', id).response = r
                /\ last'.res.body = r
                /\ SubSeq(sessions', 1, Len(sessions)) = sessions]_vars
    /\ [][(PostStep /\ last'.header.kind = "string" /\
             \E r \in 1..Len(responses) :
                 /\ responses[r].headers.McpSessionId = last'.header.val
                 /\ last'.header.val \in hist.returned
                 /\ hist.removedBy[last'.header.val] = "nothing")
            => last'.res = Accepted]_vars

\* A message request carrying the identifier announced on the second
\* stream was accepted.
EstablishStoresAnnouncedIdWitness ==
    /\ LastPost
    /\ last.res = Accepted
    /\ Len(responses) = 2
    /\ responses[2].headers.McpSessionId = last.header.val
    /\ MapGet(sessions, last.header.val).response = 2

\* C8 (dispatch of accepted messages): a message request that was answered
\* 202 has been handed to the MCP server, which is connected to a transport
\* writing to the session's stream.
AcceptedMessageDispatched ==
    (LastPost /\ last.res.status = 202) =>
        /\ server.transport # "none"
        /\ Len(server.received) > 0

\* C9 (release of the channel): a stream channel opened by stream-establish
\* is open only while its session is in the registry.
ChannelReleasedWithSession ==
    \A r \in 1..Len(responses) :
        responses[r].state = "open" =>
            MapHas(sessions, responses[r].headers.McpSessionId)

\* C10 (disconnect removes the session): the registry holds no entry whose
\* stream channel the client has closed.
NoEntryForClosedChannel ==
    \A i \in 1..Len(sessions) :
        responses[sessions[i].value.response].state # "closed"

\* The client closed the stream of a live session, while another session
\* is in the registry.
NoEntryForClosedChannelWitness ==
    /\ \E r \in 1..Len(responses) :
           /\ responses[r].state = "closed"
           /\ hist.removedBy[responses[r].headers.McpSessionId]
                  = "disconnect"
    /\ Len(sessions) > 0

\* C11 (one error envelope): every failure response that carries a body
\* (status 400 and above) is the JSON-RPC envelope: the tag "2.0" and an
\* error object holding exactly a numeric code and a message.
ErrorEnvelopeUniform ==
    (last.res.status >= 400 /\ last.res.kind = "json") =>
        /\ DOMAIN last.res.body = {"jsonrpc", "error"}
        /\ last.res.body.jsonrpc = "2.0"
        /\ DOMAIN last.res.body.error = {"code", "message"}
        /\ last.res.body.error.code \in Int

\* C12 (malformed body first): a request with a malformed body is answered
\* 400 / -32600 whatever its Mcp-Session-Id header (absent, unknown or
\* valid), and the registry is left as it was: no session is looked up,
\* refreshed or removed.
MalformedRejectedFirst ==
    [][ParseStep =>
         /\ last'.res.status = 400
         /\ last'.res.body.error.code = -32600
         /\ last'.res = sendJsonRpcError(400, INVALID_REQUEST,
                                         "Bad Request: Malformed JSON")
         /\ sessions' = sessions]_vars

\* A message request with a malformed body and the identifier of a live
\* session was answered 400, and the session's lastActivity is still in
\* the past.
MalformedRejectedFirstWitness ==
    /\ last.method = "POST"
    /\ last.body = "malformed"
    /\ last.header = Str(<<1>>)
    /\ last.res.status = 400
    /\ MapHas(sessions, <<1>>)
    /\ MapGet(sessions, <<1>>).lastActivity < now

OneResponsePerRequest ==
    /\ [](last.method # "none" => last.sent = 1)
    /\ [][Len(responses') = Len(responses) + 1 =>
            /\ last'.method = "GET"
            /\ last'.sent = 1
            /\ last'.res.kind = "stream"
            /\ responses'[last'.res.body].state = "open"
            /\ responses'[last'.res.body].written = <<"comment">>]_vars

\* A terminate request whose handler threw before the response was written
\* was answered 500, after the named session was removed.
OneResponsePerRequestWitness ==
    /\ last.method = "DELETE"
    /\ last.res = InternalErrorResponse
    /\ last.sent = 1
    /\ last.header.val \in hist.returned
    /\ hist.removedBy[last.header.val] = "terminate"

\* C15 (no second response): when a handler throws after a response, or
\* the headers of a stream, were sent, the dispatcher does not start to
\* write another response.
NoSecondResponseAttempt == last.sent = 1 => last.attempts = 1

\* Session k is in the registry and its lastActivity is more than maxAge
\* ago.
Expired(k) ==
    /\ MapHas(sessions, k)
    /\ now - MapGet(sessions, k).lastActivity > MAX_AGE_MS

\* C16 (the sweeper removes idle sessions): while the sweeper's timer is
\* set, a session whose lastActivity is more than maxAge ago and that no
\* accepted message refreshes is eventually removed, without any request
\* being needed; and every run of the sweeper removes all such sessions, so
\* the removal happens at the first run after the session expired.
SweeperEventuallyRemoves ==
    /\ []<>(cleanupInterval = "cleared" \/ \A k \in IDs : ~Expired(k))
    /\ [][SweepStep => \A k \in IDs : ~Expired(k)']_vars

\* A sweep removed session <<1>>, which no terminate and no disconnect had
\* ended, while the timer is still set.
SweeperEventuallyRemovesWitness ==
    /\ <<1>> \in hist.returned
    /\ hist.removedBy[<<1>>] = "sweep"
    /\ ~MapHas(sessions, <<1>>)
    /\ cleanupInterval = "active"
    /\ last.method \notin {"POST", "DELETE"}

\* C17 (shutdown): the SIGTERM handler cancels the sweeper and closes every
\* open stream, so that when it returns the registry is empty and no
\* stream is open.
ShutdownClosesStreams ==
    [][(cleanupInterval = "active" /\ cleanupInterval' = "cleared") =>
            /\ sessions' = <<>>
            /\ \A r \in 1..Len(responses') :
                   responses'[r].state # "open"]_vars

\* C18 (consistent registry): in every state reached by any interleaving
\* of stream-establish, message, terminate, disconnect and sweep steps, no
\* key occurs twice in the registry, and every entry is a complete session
\* whose id is its key, whose channel is a stream that was opened and whose
\* createdAt <= lastActivity <= now; and a message request is answered 202
\* exactly when its identifier is a key of the registry at the step of its
\* lookup, which refreshes that entry and no other.
RegistryConsistent ==
    /\ [](\A i, j \in 1..Len(sessions) :
              sessions[i].key = sessions[j].key => i = j)
    /\ [](\A i \in 1..Len(sessions) :
              LET s == sessions[i].value
              IN  /\ DOMAIN s = {"id", "response", "createdAt",
                                 "lastActivity"}
                  /\ s.id = sessions[i].key
                  /\ s.id \in issued
                  /\ s.response \in 1..Len(responses)
                  /\ responses[s.response].headers.McpSessionId = s.id
                  /\ s.createdAt <= s.lastActivity
                  /\ s.lastActivity <= now)
    /\ [][PostStep =>
            LET k == last'.header.val
            IN  /\ (last'.res.status = 202) <=> k \in MapKeys(sessions)
                /\ MapKeys(sessions') = MapKeys(sessions)
                /\ \A i \in 1..Len(sessions) :
                       IF sessions[i].key = k
                       THEN sessions'[i] =
                                [sessions[i] EXCEPT
                                    !.value.lastActivity = now]
                       ELSE sessions'[i] = sessions[i]]_vars

\* A message was accepted, and refreshed the one session left in the
\* registry, after the client had closed the stream of the other session.
RegistryConsistentWitness ==
    /\ LastPost
    /\ last.res.status = 202
    /\ Len(sessions) = 1
    /\ Len(responses) = 2
    /\ sessions[1].key = last.header.val
    /\ sessions[1].value.lastActivity > sessions[1].value.createdAt
    /\ \E k \in hist.returned : hist.removedBy[k] = "disconnect"

\* C19 (health is read-only): a health request reports as activeSessions
\* the number of sessions in the registry, that is of the identifiers
\* returned and not ended since, and leaves the registry as it was: no
\* session is created, removed or refreshed.
HealthReadOnly ==
    [][HealthStep =>
         /\ last'.res.status = 200
         /\ last'.res.body.activeSessions = Cardinality(MapKeys(sessions))
         /\ last'.res.body.activeSessions = Cardinality(HistLive)
         /\ sessions' = sessions
         /\ responses' = responses]_vars

\* A health request reported one active session after two were created
\* and one of them ended; the one left was last active in the past.
HealthReadOnlyWitness ==
    /\ last.path = "/health"
    /\ last.res.body.activeSessions = 1
    /\ Cardinality(hist.returned) = 2
    /\ Len(sessions) = 1
    /\ sessions[1].value.lastActivity < now
    /\ last.res.body.timestamp = now

\* The entry of the registry is idle for more than maxAge at time t.
Stale(e, t) == t - e.value.lastActivity > MAX_AGE_MS

\* The entries of registry m that are not stale at time t, in their order.
RECURSIVE KeepFresh(_, _)
KeepFresh(m, t) ==
    IF m = <<>> THEN <<>>
    ELSE IF Stale(Head(m), t) THEN KeepFresh(Tail(m), t)
         ELSE <<Head(m)>> \o KeepFresh(Tail(m), t)

\* C20 (one sweep): a run of the sweeper removes exactly the sessions with
\* now - lastActivity > maxAge (a session idle for exactly maxAge stays) and
\* leaves every other entry, its lastActivity included, as it was and in
\* its place; no stale session is skipped, also when several stand next
\* to each other.
SweepRemovesExactlyStale ==
    [][SweepStep =>
         /\ sessions' = KeepFresh(sessions, now)
         /\ \A i \in 1..Len(sessions) :
                now - sessions[i].value.lastActivity = MAX_AGE_MS =>
                    \E j \in 1..Len(sessions') : sessions'[j] = sessions[i]
         /\ cleanupStale(sessions, now, MAX_AGE_MS).cleanedCount
                = Len(sessions) - Len(sessions')]_vars

\* A sweep removed session <<1>>; session <<2>>, refreshed by a message
\* less than maxAge ago, is still in the registry.
SweepRemovesExactlyStaleWitness ==
    /\ hist.removedBy[<<1>>] = "sweep"
    /\ <<1>> \in hist.returned
    /\ MapHas(sessions, <<2>>)
    /\ MapGet(sessions, <<2>>).lastActivity
           > MapGet(sessions, <<2>>).createdAt
    /\ now - MapGet(sessions, <<2>>).lastActivity < MAX_AGE_MS

\* C21 (frame of a lookup): an accepted message request sets lastActivity
\* of the session it names to the current time and changes nothing else;
\* a message request answered 400 or 401 leaves the registry as it was.  No
\* message request adds or removes an entry, moves one, or alters a session
\* other than the one named.
LookupFrame ==
    [][PostStep =>
         LET k == last'.header.val
         IN  /\ Len(sessions') = Len(sessions)
             /\ \A i \in 1..Len(sessions) :
                    sessions'[i] =
                        IF last'.res.status = 202 /\ sessions[i].key = k
                        THEN [sessions[i] EXCEPT !.value.lastActivity = now]
                        ELSE sessions[i]
             /\ last'.res.status \in {400, 401} => sessions' = sessions
             /\ last'.res.status \in {202, 400, 401}
             /\ responses' = responses]_vars

\* A message was accepted for session <<2>> and refreshed it, while session
\* <<1>> is in the registry with its lastActivity still at its createdAt,
\* in the past.
LookupFrameWitness ==
    /\ LastPost
    /\ last.res.status = 202
    /\ last.header = Str(<<2>>)
    /\ MapHas(sessions, <<2>>)
    /\ MapGet(sessions, <<2>>).lastActivity = now
    /\ MapGet(sessions, <<2>>).createdAt < now
    /\ MapHas(sessions, <<1>>)
    /\ MapGet(sessions, <<1>>).lastActivity < now

\* The identifiers deleteSession is applied to: the issued and not yet
\* issued ones, one that is never issued, and the empty string.
DeleteArgs == IDs \cup {Bogus, <<>>}

\* C22 (deleteSession is idempotent): on every reachable registry,
\* deleteSession of an identifier that is no key returns the registry as it
\* is, and deleteSession applied twice to an identifier gives what applying
\* it once gives, which no longer holds the identifier and holds every
\* other entry as before.
DeleteSessionIdempotent ==
    \A k \in DeleteArgs :
        LET once == deleteSession(sessions, k)
        IN  /\ k \notin MapKeys(sessions) => once = sessions
            /\ deleteSession(once, k) = once
            /\ MapKeys(once) = MapKeys(sessions) \ {k}
            /\ \A j \in MapKeys(once) : MapGet(once, j) = MapGet(sessions, j)

\* A terminate request for session <<1>>, which a sweep had removed before,
\* ran deleteSession on a registry that holds session <<2>> only.
DeleteSessionIdempotentWitness ==
    /\ LastDelete
    /\ last.header = Str(<<1>>)
    /\ hist.removedBy[<<1>>] = "sweep"
    /\ MapKeys(sessions) = {<<2>>}

\* C23 (timestamps of a session): every session in the registry has
\* lastActivity >= createdAt, and a session just created has
\* lastActivity = createdAt.
CreatedWithEqualTimestamps ==
    /\ [](\A i \in 1..Len(sessions) :
              sessions[i].value.lastActivity >= sessions[i].value.createdAt)
    /\ [][GetStep =>
            LET s == sessions'[Len(sessions')].value
            IN  s.createdAt = s.lastActivity]_vars

\* C24 (lastActivity never goes back): no step makes the lastActivity of a
\* session that stays in the registry smaller, whether the step is a lookup
\* of it, a sweep, or the establish, lookup or terminate of another session.
LastActivityMonotone ==
    [][sessions' # sessions =>
         \A k \in MapKeys(sessions) \cap MapKeys(sessions') :
             MapGet(sessions', k).lastActivity
                 >= MapGet(sessions, k).lastActivity]_vars

\* Session <<1>> was refreshed by the last message, more than maxAge after
\* its creation, while session <<2>> went through the same steps unrefreshed.
LastActivityMonotoneWitness ==
    /\ LastPost
    /\ last.header = Str(<<1>>)
    /\ MapHas(sessions, <<1>>)
    /\ MapGet(sessions, <<1>>).lastActivity
           > MapGet(sessions, <<1>>).createdAt + MAX_AGE_MS
    /\ MapHas(sessions, <<2>>)
    /\ MapGet(sessions, <<2>>).lastActivity < now

\* C25 (messages of one session do not hinder each other): in every
\* reachable state a message request carrying the identifier of a session
\* in the registry can be handled at once and is answered 202, and in the
\* registry it leaves behind a further message request carrying the same,
\* or any other live, identifier is answered 202 again; so any number of
\* them, handled in any order with no removal in between, are all accepted.
ConcurrentMessagesAccepted ==
    \A k \in MapKeys(sessions) :
        LET after == getSession(sessions, k, now)
        IN  /\ ENABLED handlePostMcp(Str(k))
            /\ PostResponse(sessions, Str(k)) = Accepted
            /\ MapKeys(after) = MapKeys(sessions)
            /\ \A j \in MapKeys(sessions) :
                   PostResponse(after, Str(j)) = Accepted

\* A message for session <<1>> was accepted and refreshed it, after an
\* earlier message had been accepted for session <<2>>; both sessions are
\* in the registry.
ConcurrentMessagesAcceptedWitness ==
    /\ LastPost
    /\ last.res = Accepted
    /\ last.header = Str(<<1>>)
    /\ MapKeys(sessions) = {<<1>>, <<2>>}
    /\ MapGet(sessions, <<1>>).lastActivity = now
    /\ MapGet(sessions, <<1>>).createdAt + 1 < now
    /\ MapGet(sessions, <<2>>).lastActivity + 1 < now
    /\ MapGet(sessions, <<2>>).lastActivity
           > MapGet(sessions, <<2>>).createdAt + 1

\* C26 (result of a sweep): a run of cleanupStale returns the number of
\* sessions it removed, 0 when none was stale.
SweepReturnsCount ==
    [][SweepStep =>
         LET r == cleanupStaleReturn(sessions, now, MAX_AGE_MS)
         IN  /\ r.kind = "number"
             /\ r.val = Len(sessions) - Len(sessions')]_vars

\* C26, amended: a run of cleanupStale returns nothing; it counts the
\* sessions it removed and writes that count to the log when it is
\* positive, and writes nothing when no session was stale.
SweepLogsCount ==
    [][SweepStep =>
         LET removed == Len(sessions) - Len(sessions')
         IN  /\ cleanupStaleReturn(sessions, now, MAX_AGE_MS) = undefined
             /\ cleanupStale(sessions, now, MAX_AGE_MS).cleanedCount
                    = removed
             /\ cleanupStaleLog(sessions, now, MAX_AGE_MS) =
                    IF removed > 0 THEN <<removed>> ELSE <<>>]_vars

\* Sweeps have removed both sessions and the registry is empty.
SweepLogsCountWitness ==
    /\ hist.returned = {<<1>>, <<2>>}
    /\ hist.removedBy[<<1>>] = "sweep"
    /\ hist.removedBy[<<2>>] = "sweep"
    /\ sessions = <<>>

\* The entries of registry m whose key is not k, in their order.
RECURSIVE Without(_, _)
Without(m, k) ==
    IF m = <<>> THEN <<>>
    ELSE IF Head(m).key = k THEN Without(Tail(m), k)
         ELSE <<Head(m)>> \o Without(Tail(m), k)

\* C28 (frame of a terminate): a terminate request removes at most the
\* entry stored under the identifier of its header; every other entry
\* stays in its place with its id, createdAt, lastActivity and stream, no
\* stream is touched, and a terminate request without an identifier
\* leaves the registry as it was.
TerminateFrame ==
    [][DeleteStep =>
         LET h == last'.header
         IN  /\ sessions' = Without(sessions, h.val)
             /\ Len(sessions') >= Len(sessions) - 1
             /\ (h = undefined \/ h = Str(<<>>)) => sessions' = sessions
             /\ responses' = responses]_vars

\* A terminate request removed session <<1>>; session <<2>>, refreshed
\* earlier, is in the registry with its timestamps and its stream.
TerminateFrameWitness ==
    /\ LastDelete
    /\ last.header = Str(<<1>>)
    /\ hist.removedBy[<<1>>] = "terminate"
    /\ MapKeys(sessions) = {<<2>>}
    /\ MapGet(sessions, <<2>>).response = 2
    /\ MapGet(sessions, <<2>>).lastActivity
           > MapGet(sessions, <<2>>).createdAt + 1

\* C29 (the lookup does not check the age): a message request carrying the
\* identifier of a session that is idle for more than maxAge but still in
\* the registry is answered 202 and sets the session's lastActivity to the
\* current time, so that a sweep running next keeps the session; and a
\* message request carrying a returned identifier is answered 401 only
\* when a sweep, a terminate or a disconnect has removed the session.
LookupIgnoresAge ==
    /\ [][(PostStep /\ Expired(last'.header.val)) =>
            LET k == last'.header.val
            IN  /\ last'.res = Accepted
                /\ MapGet(sessions', k).lastActivity = now
                /\ MapHas(cleanupStale(sessions', now', MAX_AGE_MS).map,
                          k)]_vars
    /\ [][(PostStep /\ last'.header.val \in hist.returned
                    /\ last'.res.status = 401) =>
            hist.removedBy[last'.header.val] # "nothing"]_vars

\* A message for session <<1>>, created more than maxAge ago, was accepted
\* and refreshed it; session <<2>> is idle for more than maxAge and still
\* in the registry, so no sweep has run since it expired.
LookupIgnoresAgeWitness ==
    /\ LastPost
    /\ last.res = Accepted
    /\ last.header = Str(<<1>>)
    /\ MapHas(sessions, <<1>>)
    /\ MapGet(sessions, <<1>>).lastActivity = now
    /\ now - MapGet(sessions, <<1>>).createdAt > MAX_AGE_MS
    /\ Expired(<<2>>)

SdkPostRouted ==
    /\ [](\A r \in 1..Len(responses) :
              \E id \in IDs :
                  sdkPostResponse(activeTransports, Str(id),
                                  server.transport)
                      = [status |-> 200, kind |-> "transport", body |-> r])
    /\ [][MapKeys(activeTransports') # MapKeys(activeTransports) =>
            /\ last'.method = "DELETE"
            /\ MapKeys(activeTransports') \subseteq
                   MapKeys(activeTransports)]_vars

\* The step is the "close" listener of stream r.
CloseStep(r) ==
    /\ responses[r].state = "open"
    /\ responses'[r].state = "closed"
    /\ Disconnect(r)

\* C31 (the disconnect callback removes its own session only): the "close"
\* listener of the stream that announced identifier S removes the entry
\* stored under S and no other; when a terminate or a sweep removed S
\* before it fires, it leaves the registry as it is, whatever sessions were
\* created in between.
DisconnectRemovesOwnOnly ==
    [][\A r \in 1..Len(responses) :
           CloseStep(r) =>
               LET S == responses[r].headers.McpSessionId
               IN  /\ sessions' = Without(sessions, S)
                   /\ hist.removedBy[S] \in {"terminate", "sweep"}
                          => sessions' = sessions]_vars

\* Session <<1>> was ended by a terminate request, session <<2>> was
\* established after that request, the "close" listener of the stream of
\* session <<1>> has run, and session <<2>> is in the registry with its
\* stream open.
DisconnectRemovesOwnOnlyWitness ==
    /\ hist.removedBy[<<1>>] = "terminate"
    /\ Len(responses) = 2
    /\ responses[1].state = "closed"
    /\ responses[2].state = "open"
    /\ last.method = "GET"
    /\ last.res.body = 2
    /\ MapKeys(sessions) = {<<2>>}

\* The endpoint serves establish, message and terminate requests: every
\* such request gets its handler run (an establish as long as the generator
\* has an identifier left).
Serving ==
    /\ randomUUID # {} => ENABLED handleGetMcp
    /\ \A h \in Headers : ENABLED handlePostMcp(h)
    /\ \A h \in Headers : ENABLED handleDeleteMcp(h)

Unauthorized ==
    sendJsonRpcError(401, UNAUTHORIZED,
                     "Unauthorized: Invalid or expired session ID")

\* C33 (removal is permanent): once a terminate, a disconnect or a sweep
\* has removed an identifier from the registry, the identifier is never a
\* key of the registry again, whatever operations follow, and every message
\* request carrying it is answered 401 / -32001 and changes nothing.
RemovalPermanent ==
    /\ [](\A k \in hist.returned :
              hist.removedBy[k] # "nothing" =>
                  /\ ~MapHas(sessions, k)
                  /\ PostResponse(sessions, Str(k)) = Unauthorized)
    /\ [][(PostStep /\ last'.header.val \in hist.returned
                    /\ hist.removedBy[last'.header.val] # "nothing") =>
            /\ last'.res = Unauthorized
            /\ last'.res.body.error.code = -32001
            /\ sessions' = sessions]_vars

\* Session <<1>> was removed by a sweep; session <<2>>, established when
\* more than maxAge had passed, is in the registry; and a message request
\* carrying the identifier of session <<1>> was answered 401 after the
\* removal.
RemovalPermanentWitness ==
    /\ hist.removedBy[<<1>>] = "sweep"
    /\ MapKeys(sessions) = {<<2>>}
    /\ LastPost
    /\ last.header = Str(<<1>>)
    /\ last.res = Unauthorized
    /\ MapGet(sessions, <<2>>).createdAt > MAX_AGE_MS

\* The identifiers that a terminate, a disconnect or a sweep has removed.
Removed == {k \in IDs : hist.removedBy[k] # "nothing"}

\* C34 (a session is destroyed at most once): the active-session count is
\* never negative and equals the number of establishes minus the number of
\* sessions removed; a terminate or a disconnect lowers it by one when its
\* session is in the registry and leaves it alone when a terminate, a
\* disconnect or a sweep removed that session before; a sweep lowers it by
\* the number of expired sessions still in the registry.
DestroyedAtMostOnce ==
    /\ [](/\ getActiveCount(sessions) >= 0
          /\ getActiveCount(sessions)
                 = Len(responses) - Cardinality(Removed))
    /\ [][DeleteStep =>
            getActiveCount(sessions') =
                getActiveCount(sessions)
                    - (IF last'.header.val \in Removed
                          \/ last'.header.val \notin hist.returned
                       THEN 0 ELSE 1)]_vars
    /\ [][\A r \in 1..Len(responses) :
            CloseStep(r) =>
                getActiveCount(sessions') =
                    getActiveCount(sessions)
                        - (IF responses[r].headers.McpSessionId \in Removed
                           THEN 0 ELSE 1)]_vars
    /\ [][SweepStep =>
            getActiveCount(sessions') =
                getActiveCount(sessions)
                    - Cardinality({k \in IDs \ Removed : Expired(k)})]_vars

\* A sweep removed session <<1>>, then the stream of session <<1>> was
\* disconnected and a terminate request carrying its identifier was
\* served; two sessions were established and the active-session count is
\* 1.
DestroyedAtMostOnceWitness ==
    /\ hist.removedBy[<<1>>] = "sweep"
    /\ responses[1].state = "closed"
    /\ LastDelete
    /\ last.header = Str(<<1>>)
    /\ Len(responses) = 2
    /\ Removed = {<<1>>}
    /\ getActiveCount(sessions) = 1

====
